---- MODULE Spec2Model ----
(***************************************************************************)
(* A model of the vu engine's mesh store (mesh.go), its OpenGL binder and  *)
(* draw submission (render/opengl.go) and its cullers (culler.go).         *)
(*                                                                         *)
(* The graphics device (package gl) is modelled as a recording double:     *)
(* `dev` holds the state the device would have after the calls the code    *)
(* issues, `live` the device objects generated and not yet deleted, and    *)
(* `calls` counts the device calls of interest.  The double accepts every  *)
(* handle value it is given.  A device error is a pending flag that        *)
(* gl.GetError returns and clears.                                         *)
(***************************************************************************)
EXTENDS Integers, Sequences, FiniteSets, TLC

VARIABLES
    mesh,   \* the Mesh: rebind, vao, faces, vdata
    clean,  \* observer: a bind returned nil and no SetData/SetFaces took effect since
    gc,     \* the opengl context: depthTest, shader, fbo, vw, vh
    dev,    \* the device's actual state
    live,   \* device objects generated and not deleted, per kind
    calls,  \* device call counters (drawElements: gl.DrawElements and gl.DrawElementsInstanced)
    hist,   \* observer: summary of the descriptors submitted so far
    drawn,  \* observer: the device state seen by the last draw call
    last,   \* the last operation performed and its outcome
    ret,    \* what the last operation returned to its caller
    steps,  \* operations performed so far
    culler, \* the Culler built last: kind, radius, rr
    given,  \* observer: the radius the culler was built with
    ff      \* the flow-field example's fftag: created, chasers, goal, flow

vars == <<mesh, clean, gc, dev, live, calls, hist, drawn, last, ret, steps, culler, given,
          ff>>

(***************************************************************************)
(* Bounds of the model.                                                    *)
(***************************************************************************)
MaxSteps == 6       \* operations performed in one run
MaxOps == 4         \* of which binder operations (Render, Viewport, Enable, BindTarget, BindMap)
MaxSlot == 1        \* layout slots are 0..MaxSlot
MaxHandle == 1      \* handle values a descriptor carries are 0..MaxHandle
MaxRenders == 3     \* descriptors submitted in one run
MaxTargets == 2     \* off-screen targets created in one run

(***************************************************************************)
(* Program constants.                                                      *)
(***************************************************************************)
MaxVerts == 65000   \* mesh.go: vertex limit of one mesh
LayerSize == 1024   \* render.LayerSize: resolution of an off-screen target

Slots == 0 .. MaxSlot
Handles == 0 .. MaxHandle
StaticDraw == "STATIC_DRAW"
DynamicDraw == "DYNAMIC_DRAW"
Usages == {StaticDraw, DynamicDraw}
\* InitData arguments <<span, usage, normalize>> the callers are drawn from.
Configs == {<<3, StaticDraw, FALSE>>, <<4, DynamicDraw, TRUE>>}
VertCounts == {0, MaxVerts, MaxVerts + 1}
FaceLens == {0, 3}
Triangles == "Triangles"
Lines == "Lines"
Points == "Points"
Modes == {Triangles, Lines, Points}
Blend == "BLEND"
CullFace == "CULL_FACE"
DepthTest == "DEPTH_TEST"
PointSize == "PROGRAM_POINT_SIZE"
Attributes == {Blend, CullFace, DepthTest, PointSize}
ViewSizes == {<<800, 600>>, <<400, 300>>}

Min(S) == CHOOSE x \in S : \A y \in S : x <= y

\* gl.Gen*: a name that is not in use.
GenName(used) == Min((1 .. (Cardinality(used) + 1)) \ used)

(***************************************************************************)
(* render.Data: vertexData and faceData.                                   *)
(***************************************************************************)
NoData == [kind |-> "none", n |-> 0]
NoFaces == [nil |-> TRUE]

\* The payloads a caller hands to SetData: []float32 or []byte holding v vertices
\* of span values each.
Payloads(span) == {[kind |-> k, n |-> v * span] : k \in {"floats", "bytes"}, v \in VertCounts}

NewVertexData(lloc, span, usage, normalize) ==
    [lloc |-> lloc, span |-> span, usage |-> usage, normalize |-> normalize,
     data |-> NoData, ref |-> 0, rebind |-> FALSE, sent |-> FALSE]

\* vertexData.Set: replaces the payload and marks the channel for rebind.
\* sent observes whether the payload now held has been passed to gl.BufferData.
VertexSet(vd, data) == [vd EXCEPT !.data = data, !.rebind = TRUE, !.sent = FALSE]

\* vertexData.Len: the number of vertices.
VertexLen(vd) == vd.data.n \div vd.span

NewFaceData(usage) ==
    [nil |-> FALSE, usage |-> usage, set |-> FALSE, n |-> 0, ref |-> 0,
     rebind |-> FALSE, sent |-> FALSE]

FaceSet(fd, n) == [fd EXCEPT !.set = TRUE, !.n = n, !.rebind = TRUE, !.sent = FALSE]

FaceLen(fd) == fd.n

(***************************************************************************)
(* Mesh (mesh.go).                                                         *)
(***************************************************************************)
newMesh == [rebind |-> FALSE, vao |-> 0, faces |-> NoFaces, vdata |-> <<>>]

\* Mesh.counts: faces from the face buffer, verts from m.vdata[0].  Indexing the
\* map with a slot that is absent yields a nil render.Data, and Len on it panics.
counts(m) ==
    LET faces == IF m.faces.nil THEN 0 ELSE FaceLen(m.faces)
    IN  IF DOMAIN m.vdata = {}
        THEN [faces |-> faces, verts |-> 0, panic |-> FALSE]
        ELSE IF 0 \in DOMAIN m.vdata
             THEN [faces |-> faces, verts |-> VertexLen(m.vdata[0]), panic |-> FALSE]
             ELSE [faces |-> faces, verts |-> 0, panic |-> TRUE]

InitDataOverwrites(m, lloc, span, usage, normalize) ==
    [m EXCEPT !.vdata = (lloc :> NewVertexData(lloc, span, usage, normalize)) @@ @]

InitDataMesh(m, lloc, span, usage, normalize) ==
    IF lloc \in DOMAIN m.vdata
    THEN m
    ELSE [m EXCEPT !.vdata = (lloc :> NewVertexData(lloc, span, usage, normalize)) @@ @]

SetDataUnguarded(m, lloc, data) ==
    IF lloc \in DOMAIN m.vdata
    THEN [m EXCEPT !.vdata[lloc] = VertexSet(@, data), !.rebind = TRUE]
    ELSE [m EXCEPT !.rebind = TRUE]

SetDataMesh(m, lloc, data) ==
    IF lloc \in DOMAIN m.vdata
    THEN [m EXCEPT !.vdata[lloc] = VertexSet(@, data), !.rebind = TRUE]
    ELSE m

InitFacesMesh(m, usage) ==
    IF m.faces.nil THEN [m EXCEPT !.faces = NewFaceData(usage)] ELSE m

SetFacesMesh(m, n) ==
    IF ~m.faces.nil
    THEN [m EXCEPT !.faces = FaceSet(@, n), !.rebind = TRUE]
    ELSE m

(***************************************************************************)
(* opengl.BindMesh and its helpers (render/opengl.go).                     *)
(***************************************************************************)
\* The number of gl.BufferData / gl.BufferSubData calls bindVertexBuffer issues.
VertexUploads(vd) ==
    IF vd.usage = StaticDraw
    THEN IF vd.data.kind = "floats" /\ vd.data.n > 0 THEN 1
         ELSE IF vd.data.kind = "bytes" /\ vd.data.n > 0 THEN 1
         ELSE 0
    ELSE IF vd.data.kind = "floats" /\ vd.data.n > 0 THEN 2 ELSE 0

\* bindVertexBuffer: generate the buffer if the channel has none, upload by usage.
bindVertexBuffer(vd, bufs) ==
    LET ref == IF vd.ref = 0 THEN GenName(bufs) ELSE vd.ref
        n == VertexUploads(vd)
    IN  [vd |-> [vd EXCEPT !.ref = ref, !.sent = (n > 0) \/ @],
         bufs |-> bufs \cup {ref},
         uploads |-> n]

\* bindFaceBuffer: only a face buffer that holds data is generated and uploaded.
bindFaceBuffer(fd, bufs) ==
    IF fd.n > 0
    THEN LET ref == IF fd.ref = 0 THEN GenName(bufs) ELSE fd.ref
         IN  [fd |-> [fd EXCEPT !.ref = ref, !.sent = TRUE],
              bufs |-> bufs \cup {ref},
              uploads |-> 1]
    ELSE [fd |-> fd, bufs |-> bufs, uploads |-> 0]

RebindKept(ch) == ch

\* vd.rebind = false / fd.rebind = false, after the channel's buffer was bound.
ClearRebind(ch) == [ch EXCEPT !.rebind = FALSE]

\* The loop over vdata.  Go ranges over the map in no fixed order; the model takes
\* the slots in ascending order, which only decides which buffer name a channel gets.
RECURSIVE BindVertexLoop(_, _)
BindVertexLoop(todo, acc) ==
    IF todo = {}
    THEN acc
    ELSE LET s == Min(todo)
             vd == acc.vdata[s]
         IN  IF vd.rebind
             THEN LET b == bindVertexBuffer(vd, acc.bufs)
                  IN  BindVertexLoop(todo \ {s},
                          [vdata |-> [acc.vdata EXCEPT ![s] = ClearRebind(b.vd)],
                           bufs |-> b.bufs,
                           uploads |-> acc.uploads + b.uploads])
             ELSE BindVertexLoop(todo \ {s}, acc)

\* The face step of BindMesh: a nil fdata fails the type assertion and is skipped.
BindFaces(fd, bufs) ==
    IF ~fd.nil /\ fd.rebind
    THEN LET b == bindFaceBuffer(fd, bufs)
         IN  [fd |-> ClearRebind(b.fd), bufs |-> b.bufs, uploads |-> b.uploads]
    ELSE [fd |-> fd, bufs |-> bufs, uploads |-> 0]

\* BindMesh(vao, vdata, fdata) on device d with live objects lv.  fault names the
\* step during which the device raises an error: "none", "vb" (while binding the
\* vertex buffers) or "fb" (while binding the face buffer).
BindMesh(vao, vdata, fdata, d, lv, fault) ==
    IF d.err
    THEN [err |-> "prior", vao |-> vao, vdata |-> vdata, fdata |-> fdata,
          dev |-> [d EXCEPT !.err = FALSE], live |-> lv, uploads |-> 0]
    ELSE LET v == IF vao = 0 THEN GenName(lv.vao) ELSE vao
             vb == BindVertexLoop(DOMAIN vdata, [vdata |-> vdata, bufs |-> lv.buf, uploads |-> 0])
             fb == BindFaces(fdata, vb.bufs)
         IN  IF fault = "vb"
             THEN [err |-> "vb", vao |-> v, vdata |-> vb.vdata, fdata |-> fdata,
                   dev |-> [d EXCEPT !.vao = v],
                   live |-> [lv EXCEPT !.vao = @ \cup {v}, !.buf = vb.bufs],
                   uploads |-> vb.uploads]
             ELSE IF fault = "fb"
             THEN [err |-> "fb", vao |-> v, vdata |-> vb.vdata, fdata |-> fb.fd,
                   dev |-> [d EXCEPT !.vao = v],
                   live |-> [lv EXCEPT !.vao = @ \cup {v}, !.buf = fb.bufs],
                   uploads |-> vb.uploads + fb.uploads]
             ELSE [err |-> "nil", vao |-> v, vdata |-> vb.vdata, fdata |-> fb.fd,
                   dev |-> [d EXCEPT !.vao = 0],
                   live |-> [lv EXCEPT !.vao = @ \cup {v}, !.buf = fb.bufs],
                   uploads |-> vb.uploads + fb.uploads]

\* engine.bind(m): hands the mesh's vao, vertex data and face data to BindMesh.
engBind(m, d, lv, fault) == BindMesh(m.vao, m.vdata, m.faces, d, lv, fault)

\* Mesh.bind: m.rebind = false, then eng.bind(m), whatever it returns.
bindMesh(m, d, lv, fault) ==
    LET r == engBind([m EXCEPT !.rebind = FALSE], d, lv, fault)
    IN  [mesh |-> [rebind |-> FALSE, vao |-> r.vao, faces |-> r.fdata, vdata |-> r.vdata],
         err |-> r.err, dev |-> r.dev, live |-> r.live, uploads |-> r.uploads]

(***************************************************************************)
(* State after construction: newMesh, newRenderer, a device with nothing   *)
(* bound, no capability enabled and no pending error.                      *)
(***************************************************************************)
newRenderer == [depthTest |-> FALSE, shader |-> 0, fbo |-> 0, vw |-> 0, vh |-> 0]

NoRet == [kind |-> "none"]

\* The fftag before the engine calls Create.
NoTag == [created |-> FALSE, chasers |-> <<>>, goal |-> <<0, 0>>, flow |-> <<0, 0>>]

\* No culler is attached to the camera yet.
NoCuller == [kind |-> "none", radius |-> 0, rr |-> 0]

\* The record of an operation: its name, its arguments where a property needs them,
\* the error it returned, the buffer uploads it issued, and clean as it found it.
DoneWith(op, arg, err, uploads) ==
    [op |-> op, arg |-> arg, err |-> err, uploads |-> uploads, wasClean |-> clean]

Done(op, err, uploads) == DoneWith(op, <<>>, err, uploads)

Init ==
    /\ mesh = newMesh
    /\ clean = FALSE
    /\ gc = newRenderer
    /\ dev = [depth |-> FALSE, program |-> 0, fbo |-> 0, scissor |-> FALSE,
              vao |-> 0, err |-> FALSE, vp |-> <<0, 0>>]
    /\ live = [vao |-> {}, buf |-> {}, fbo |-> {}, tex |-> {}, rbo |-> {}, program |-> {}]
    /\ calls = [useProgram |-> 0, bindFramebuffer |-> 0, drawElements |-> 0,
                drawArrays |-> 0]
    /\ hist = [n |-> 0, shader |-> 0, fbo |-> 0, sameShader |-> TRUE, sameFbo |-> TRUE,
               points |-> 0, scissor |-> FALSE, view |-> <<0, 0>>]
    /\ drawn = [any |-> FALSE]
    /\ last = [op |-> "new", arg |-> <<>>, err |-> "nil", uploads |-> 0, wasClean |-> FALSE]
    /\ ret = NoRet
    /\ steps = 0
    /\ culler = NoCuller
    /\ given = 0
    /\ ff = NoTag

\* Every operation is one step of a run of at most MaxSteps operations.
Tick == steps < MaxSteps /\ steps' = steps + 1

\* A binder operation is one of at most MaxOps of them.
BinderTick == steps < MaxOps /\ steps' = steps + 1

meshVars == <<mesh, clean>>
renderVars == <<gc, calls, hist, drawn>>
cullVars == <<culler, given>>

(***************************************************************************)
(* The mesh operations as steps.                                           *)
(***************************************************************************)
InitData(lloc, span, usage, normalize) ==
    /\ Tick
    /\ mesh' = InitDataMesh(mesh, lloc, span, usage, normalize)
    /\ last' = DoneWith("InitData", <<lloc, span, usage, normalize>>, "nil", 0)
    /\ ret' = [kind |-> "mesh", val |-> mesh']
    /\ UNCHANGED <<clean, dev, live, renderVars, cullVars, ff>>

SetData(lloc, data) ==
    /\ Tick
    /\ mesh' = SetDataMesh(mesh, lloc, data)
    /\ clean' = (clean /\ lloc \notin DOMAIN mesh.vdata)
    /\ last' = DoneWith("SetData", <<lloc, data>>, "nil", 0)
    /\ ret' = NoRet
    /\ UNCHANGED <<dev, live, renderVars, cullVars, ff>>

InitFaces(usage) ==
    /\ Tick
    /\ mesh' = InitFacesMesh(mesh, usage)
    /\ last' = DoneWith("InitFaces", <<usage>>, "nil", 0)
    /\ ret' = [kind |-> "mesh", val |-> mesh']
    /\ UNCHANGED <<clean, dev, live, renderVars, cullVars, ff>>

SetFaces(n) ==
    /\ Tick
    /\ mesh' = SetFacesMesh(mesh, n)
    /\ clean' = (clean /\ mesh.faces.nil)
    /\ last' = DoneWith("SetFaces", <<n>>, "nil", 0)
    /\ ret' = NoRet
    /\ UNCHANGED <<dev, live, renderVars, cullVars, ff>>

CallCounts ==
    /\ Tick
    /\ ret' = [kind |-> "counts", val |-> counts(mesh)]
    /\ last' = Done("counts", "nil", 0)
    /\ UNCHANGED <<mesh, clean, dev, live, renderVars, cullVars, ff>>

Bind(fault) ==
    LET r == bindMesh(mesh, dev, live, fault)
    IN  /\ Tick
        /\ mesh' = r.mesh
        /\ dev' = r.dev
        /\ live' = r.live
        /\ clean' = (r.err = "nil")
        /\ last' = Done("bind", r.err, r.uploads)
        /\ ret' = [kind |-> "error", val |-> r.err]
        /\ UNCHANGED <<renderVars, cullVars, ff>>

\* Some device call left an error that nobody has fetched yet.
DeviceError ==
    /\ Tick
    /\ ~dev.err
    /\ dev' = [dev EXCEPT !.err = TRUE]
    /\ last' = Done("glerror", "nil", 0)
    /\ ret' = NoRet
    /\ UNCHANGED <<mesh, clean, live, renderVars, cullVars, ff>>

\* The span the caller sizes a payload for: the channel's, or 1 for a slot without one.
SpanAt(lloc) == IF lloc \in DOMAIN mesh.vdata THEN mesh.vdata[lloc].span ELSE 1

NextMesh ==
    \/ \E lloc \in Slots, c \in Configs : InitData(lloc, c[1], c[2], c[3])
    \/ \E lloc \in Slots : \E data \in Payloads(SpanAt(lloc)) : SetData(lloc, data)
    \/ \E usage \in Usages : InitFaces(usage)
    \/ \E n \in FaceLens : SetFaces(n)
    \/ CallCounts
    \/ \E fault \in {"none", "vb", "fb"} : Bind(fault)
    \/ DeviceError

SpecMesh == Init /\ [][NextMesh]_vars

(***************************************************************************)
(* opengl.Render and opengl.bindUniforms.                                  *)
(***************************************************************************)
\* "uv%d" scanned from a key with prefix "uv": the digits, or 0 when there are none.
IsUv(key) == key \in {"uv", "uv0", "uv1"}
UvIndex(key) == IF key = "uv1" THEN 1 ELSE 0

UniformCallNoMatrix(d, key) ==
    IF key = "bpos" THEN (IF d.Poses > 0 THEN "UniformMatrix3x4fv" ELSE "log")
    ELSE IF key = "sm" THEN "Uniform1i"
    ELSE IF IsUv(key) THEN (IF UvIndex(key) \in d.Texs THEN "Uniform1i" ELSE "none")
    ELSE IF key \notin DOMAIN d.UniformData THEN "log"
    ELSE IF d.UniformData[key] \in 1 .. 4 THEN "Uniform4f"
    ELSE "log"

\* The device call bindUniforms issues for one key of d.Uniforms ("log": a message
\* and no call, "none": neither).  d.Poses and d.UniformData[key] are the lengths
\* of the pose and uniform data slices, d.Texs the binding orders of d.Texs.
UniformCall(d, key) ==
    IF key = "bpos" THEN (IF d.Poses > 0 THEN "UniformMatrix3x4fv" ELSE "log")
    ELSE IF key = "sm" THEN "Uniform1i"
    ELSE IF IsUv(key) THEN (IF UvIndex(key) \in d.Texs THEN "Uniform1i" ELSE "none")
    ELSE IF key \notin DOMAIN d.UniformData THEN "log"
    ELSE IF d.UniformData[key] = 1 THEN "Uniform1f"
    ELSE IF d.UniformData[key] = 2 THEN "Uniform2f"
    ELSE IF d.UniformData[key] = 3 THEN "Uniform3f"
    ELSE IF d.UniformData[key] = 4 THEN "Uniform4f"
    ELSE IF d.UniformData[key] = 16 THEN "UniformMatrix4fv"
    ELSE "log"

\* A generic uniform without data takes `continue` and skips the gl.GetError that
\* ends every other iteration.
FetchesError(d, key) ==
    key \in {"bpos", "sm"} \/ IsUv(key) \/ key \in DOMAIN d.UniformData

\* bindUniforms: the pending device error after the loop.  Each gl.GetError
\* fetches and clears it.
bindUniforms(d, err) ==
    IF \E key \in d.Uniforms : FetchesError(d, key) THEN FALSE ELSE err

SwitchAlways(cached, wanted) == TRUE

\* "switch state only if necessary": the cached value differs from the wanted one.
NeedsSwitch(cached, wanted) == cached # wanted

CacheStale(cached, wanted) == cached

\* gc.depthTest = d.Depth, gc.fbo = d.Fbo, gc.shader = d.Shader after a switch.
CacheAfter(cached, wanted) == wanted

\* The draw call chosen by d.Mode.
DrawCall(d) ==
    IF d.Mode = Lines THEN "DrawElements"
    ELSE IF d.Mode = Points THEN "DrawArrays"
    ELSE IF d.Instances > 0 THEN "DrawElementsInstanced"
    ELSE "DrawElements"

ScissorLeftOn(d, scissor) == scissor

\* The scissor test at the end of Render: disabled if this draw enabled it.
ScissorAfter(d, scissor) == IF d.Scissor THEN FALSE ELSE scissor

\* The vertex array bound at the end of Render.
VaoAfter(d) == 0

FboViewportFull(d, vw, vh) == <<vw, vh>>

\* The viewport set after a framebuffer switch: the remembered size for the default
\* framebuffer, the layer size for a framebuffer texture.
FboViewport(d, vw, vh) == IF d.Fbo = 0 THEN <<vw, vh>> ELSE <<LayerSize, LayerSize>>

\* The uniform sets a descriptor is drawn from: a 4x4 matrix with its data, a
\* generic uniform without data.
UniformChoices ==
    { [Uniforms |-> {"mvpm"}, UniformData |-> [k \in {"mvpm"} |-> 16]],
      [Uniforms |-> {"kd"}, UniformData |-> <<>>] }

\* <<Mode, Instances>> of the descriptors submitted.
DrawKinds == {<<Triangles, 0>>, <<Triangles, 2>>, <<Lines, 0>>, <<Points, 0>>}

\* Descriptors: every scissor flag, framebuffer and shader handle, with the depth
\* flags, draw kinds and uniform sets given.  Vao is the vertex array of a bound mesh.
DrawsOf(depths, kinds, unis) ==
    { [Scissor |-> sc, Depth |-> dp, Fbo |-> f, Shader |-> sh, Mode |-> k[1],
       Instances |-> k[2], Uniforms |-> u.Uniforms, UniformData |-> u.UniformData,
       Texs |-> {}, Poses |-> 0, Vao |-> 1] :
      sc \in BOOLEAN, dp \in depths, f \in Handles, sh \in Handles, k \in kinds,
      u \in unis }

\* The descriptors of a run of draws: every draw kind, depth test on, a matrix uniform.
Draws == DrawsOf({TRUE}, DrawKinds, {u \in UniformChoices : u.Uniforms = {"mvpm"}})

\* The descriptors submitted between other binder operations: plain triangles,
\* either depth flag, either uniform set.
BinderDraws == DrawsOf(BOOLEAN, {<<Triangles, 0>>}, UniformChoices)

Bump(c, call) == [c EXCEPT ![call] = @ + 1]

Render(d) ==
    LET scissor == d.Scissor \/ dev.scissor
        swDepth == NeedsSwitch(gc.depthTest, d.Depth)
        swFbo == NeedsSwitch(gc.fbo, d.Fbo)
        swShader == NeedsSwitch(gc.shader, d.Shader)
        depth == IF swDepth THEN d.Depth ELSE dev.depth
        fbo == IF swFbo THEN d.Fbo ELSE dev.fbo
        vp == IF swFbo THEN FboViewport(d, gc.vw, gc.vh) ELSE dev.vp
        program == IF swShader THEN d.Shader ELSE dev.program
        c1 == IF swFbo THEN Bump(calls, "bindFramebuffer") ELSE calls
        c2 == IF swShader THEN Bump(c1, "useProgram") ELSE c1
        call == DrawCall(d)
        c3 == IF call = "DrawArrays" THEN Bump(c2, "drawArrays")
              ELSE Bump(c2, "drawElements")
    IN  /\ BinderTick
        /\ hist.n < MaxRenders
        /\ gc' = [gc EXCEPT !.depthTest = IF swDepth THEN CacheAfter(@, d.Depth) ELSE @,
                            !.fbo = IF swFbo THEN CacheAfter(@, d.Fbo) ELSE @,
                            !.shader = IF swShader THEN CacheAfter(@, d.Shader) ELSE @]
        /\ dev' = [dev EXCEPT !.depth = depth, !.fbo = fbo, !.vp = vp,
                              !.program = program,
                              !.err = bindUniforms(d, @),
                              !.scissor = ScissorAfter(d, scissor),
                              !.vao = VaoAfter(d)]
        /\ calls' = c3
        /\ drawn' = [any |-> TRUE, call |-> call, scissor |-> scissor, depth |-> depth,
                     fbo |-> fbo, program |-> program, vao |-> d.Vao,
                     cleared |-> (swFbo /\ d.Fbo # 0),
                     fbBound |-> swFbo, cachedFbo |-> gc.fbo,
                     viewport |-> IF swFbo THEN vp ELSE <<>>,
                     uniforms |-> [key \in d.Uniforms |-> UniformCall(d, key)],
                     want |-> [Scissor |-> d.Scissor, Depth |-> d.Depth, Fbo |-> d.Fbo,
                               Shader |-> d.Shader, UniformData |-> d.UniformData,
                               Texs |-> d.Texs, Poses |-> d.Poses],
                     prevScissor |-> hist.scissor]
        /\ hist' = IF hist.n = 0
                   THEN [n |-> 1, shader |-> d.Shader, fbo |-> d.Fbo, sameShader |-> TRUE,
                         sameFbo |-> TRUE, points |-> IF d.Mode = Points THEN 1 ELSE 0,
                         scissor |-> d.Scissor, view |-> hist.view]
                   ELSE [hist EXCEPT !.n = @ + 1,
                                     !.sameShader = @ /\ d.Shader = hist.shader,
                                     !.sameFbo = @ /\ d.Fbo = hist.fbo,
                                     !.points = IF d.Mode = Points THEN @ + 1 ELSE @,
                                     !.scissor = d.Scissor]
        /\ last' = Done("Render", "nil", 0)
        /\ ret' = NoRet
        /\ UNCHANGED <<meshVars, live, cullVars, ff>>

\* opengl.Viewport.
Viewport(width, height) ==
    /\ BinderTick
    /\ gc' = [gc EXCEPT !.vw = width, !.vh = height]
    /\ dev' = [dev EXCEPT !.vp = <<width, height>>]
    /\ hist' = [hist EXCEPT !.view = <<width, height>>]
    /\ last' = Done("Viewport", "nil", 0)
    /\ ret' = NoRet
    /\ UNCHANGED <<meshVars, live, calls, drawn, cullVars, ff>>

\* opengl.Enable: of the capabilities it switches, the model tracks the depth test.
\* An attribute the switch statement has no case for (PointSize) changes nothing.
EnableDev(d, attribute, enabled) ==
    IF attribute = DepthTest THEN [d EXCEPT !.depth = enabled] ELSE d

Enable(attribute, enabled) ==
    /\ BinderTick
    /\ dev' = EnableDev(dev, attribute, enabled)
    /\ last' = Done("Enable", "nil", 0)
    /\ ret' = NoRet
    /\ UNCHANGED <<meshVars, live, renderVars, cullVars, ff>>

\* opengl.BindTarget: complete is the device's framebuffer status, fault whether a
\* device call of BindTarget raises an error.
BindTarget(complete, fault) ==
    LET fbo == GenName(live.fbo)
        tid == GenName(live.tex)
        db == GenName(live.rbo)
        glerr == dev.err \/ fault
    IN  /\ BinderTick
        /\ Cardinality(live.fbo) < MaxTargets
        /\ live' = [live EXCEPT !.fbo = @ \cup {fbo}, !.tex = @ \cup {tid},
                                !.rbo = @ \cup {db}]
        /\ IF ~complete
           THEN /\ dev' = [dev EXCEPT !.fbo = fbo, !.err = glerr]
                /\ calls' = Bump(calls, "bindFramebuffer")
                /\ ret' = [kind |-> "target", fbo |-> fbo, tid |-> tid, db |-> db,
                           err |-> "incomplete"]
                /\ last' = Done("BindTarget", "incomplete", 0)
           ELSE /\ dev' = [dev EXCEPT !.fbo = 0, !.err = FALSE]
                /\ calls' = Bump(Bump(calls, "bindFramebuffer"), "bindFramebuffer")
                /\ ret' = [kind |-> "target", fbo |-> fbo, tid |-> tid, db |-> db,
                           err |-> IF glerr THEN "glerror" ELSE "nil"]
                /\ last' = Done("BindTarget", IF glerr THEN "glerror" ELSE "nil", 0)
        /\ UNCHANGED <<meshVars, gc, hist, drawn, cullVars, ff>>

\* opengl.BindMap: as BindTarget, with a depth texture and no render buffer.
BindMap(complete, fault) ==
    LET fbo == GenName(live.fbo)
        tid == GenName(live.tex)
        glerr == dev.err \/ fault
    IN  /\ BinderTick
        /\ Cardinality(live.fbo) < MaxTargets
        /\ live' = [live EXCEPT !.fbo = @ \cup {fbo}, !.tex = @ \cup {tid}]
        /\ IF ~complete
           THEN /\ dev' = [dev EXCEPT !.fbo = fbo, !.err = glerr]
                /\ calls' = Bump(calls, "bindFramebuffer")
                /\ ret' = [kind |-> "map", fbo |-> fbo, tid |-> tid, err |-> "incomplete"]
                /\ last' = Done("BindMap", "incomplete", 0)
           ELSE /\ dev' = [dev EXCEPT !.fbo = 0, !.err = FALSE]
                /\ calls' = Bump(Bump(calls, "bindFramebuffer"), "bindFramebuffer")
                /\ ret' = [kind |-> "map", fbo |-> fbo, tid |-> tid,
                           err |-> IF glerr THEN "glerror" ELSE "nil"]
                /\ last' = Done("BindMap", IF glerr THEN "glerror" ELSE "nil", 0)
        /\ UNCHANGED <<meshVars, gc, hist, drawn, cullVars, ff>>

\* opengl.BindShader: compiles is whether gl.BindProgram compiles and links the
\* sources.  The program is created first and BindShader deletes nothing; the
\* named result program is returned on both paths.
BindShader(compiles) ==
    LET program == GenName(live.program)
    IN  /\ BinderTick
        /\ live' = [live EXCEPT !.program = @ \cup {program}]
        /\ IF ~compiles
           THEN /\ dev' = dev
                /\ ret' = [kind |-> "shader", program |-> program, err |-> "compile"]
                /\ last' = Done("BindShader", "compile", 0)
           ELSE /\ dev' = [dev EXCEPT !.err = FALSE]
                /\ ret' = [kind |-> "shader", program |-> program, err |-> "nil"]
                /\ last' = Done("BindShader", "nil", 0)
        /\ UNCHANGED <<meshVars, renderVars, cullVars, ff>>

\* The pixel layouts of the images handed to BindTexture.
ImageFormats == {"RGBA", "NRGBA", "Gray"}

\* opengl.BindTexture(tid, img): tid is the caller's handle variable, fault whether
\* a device call of the upload raises an error.  A pending error is fetched and
\* logged at entry; the texture is generated before the image type is looked at.
BindTexture(tid, format, fault) ==
    LET t == IF tid = 0 THEN GenName(live.tex) ELSE tid
        err == IF format \notin {"RGBA", "NRGBA"} THEN "format"
               ELSE IF fault THEN "glerror" ELSE "nil"
    IN  /\ BinderTick
        /\ live' = [live EXCEPT !.tex = @ \cup {t}]
        /\ dev' = [dev EXCEPT !.err = FALSE]
        /\ ret' = [kind |-> "texture", tid |-> t, err |-> err]
        /\ last' = DoneWith("BindTexture", <<tid, format>>, err, 0)
        /\ UNCHANGED <<meshVars, renderVars, cullVars, ff>>

\* The bind operations in any order, on a mesh with one channel.
NextBinds ==
    \/ \E compiles \in BOOLEAN : BindShader(compiles)
    \/ \E tid \in {0} \cup live.tex, format \in ImageFormats, fault \in BOOLEAN :
           BindTexture(tid, format, fault)
    \/ \E complete \in BOOLEAN, fault \in BOOLEAN : BindTarget(complete, fault)
    \/ \E complete \in BOOLEAN, fault \in BOOLEAN : BindMap(complete, fault)
    \/ \E c \in Configs : steps < MaxOps /\ InitData(0, c[1], c[2], c[3])
    \/ \E data \in Payloads(SpanAt(0)) : steps < MaxOps /\ SetData(0, data)
    \/ \E fault \in {"none", "vb", "fb"} : steps < MaxOps /\ Bind(fault)
    \/ steps < MaxOps /\ DeviceError

SpecBinds == Init /\ [][NextBinds]_vars

\* opengl.ReleaseMesh(vao): deletes the vertex array and nothing else.  The device
\* unbinds a vertex array that is deleted while bound.
ReleaseMesh ==
    /\ BinderTick
    /\ live' = [live EXCEPT !.vao = @ \ {mesh.vao}]
    /\ dev' = [dev EXCEPT !.vao = IF @ = mesh.vao THEN 0 ELSE @]
    /\ last' = DoneWith("ReleaseMesh", <<mesh.vao>>, "nil", 0)
    /\ ret' = NoRet
    /\ UNCHANGED <<meshVars, renderVars, cullVars, ff>>

\* opengl.ReleaseShader(sid).
ReleaseShader(sid) ==
    /\ BinderTick
    /\ live' = [live EXCEPT !.program = @ \ {sid}]
    /\ last' = DoneWith("ReleaseShader", <<sid>>, "nil", 0)
    /\ ret' = NoRet
    /\ UNCHANGED <<meshVars, dev, renderVars, cullVars, ff>>

\* opengl.ReleaseTexture(tid).
ReleaseTexture(tid) ==
    /\ BinderTick
    /\ live' = [live EXCEPT !.tex = @ \ {tid}]
    /\ last' = DoneWith("ReleaseTexture", <<tid>>, "nil", 0)
    /\ ret' = NoRet
    /\ UNCHANGED <<meshVars, dev, renderVars, cullVars, ff>>

\* opengl.ReleaseTarget(fbo, tid, db).  The device binds framebuffer 0 when the
\* bound framebuffer is deleted.
ReleaseTarget(fbo, tid, db) ==
    /\ BinderTick
    /\ live' = [live EXCEPT !.fbo = @ \ {fbo}, !.tex = @ \ {tid}, !.rbo = @ \ {db}]
    /\ dev' = [dev EXCEPT !.fbo = IF @ = fbo THEN 0 ELSE @]
    /\ last' = DoneWith("ReleaseTarget", <<fbo, tid, db>>, "nil", 0)
    /\ ret' = NoRet
    /\ UNCHANGED <<meshVars, renderVars, cullVars, ff>>

\* opengl.ReleaseMap(fbo, tid).
ReleaseMap(fbo, tid) ==
    /\ BinderTick
    /\ live' = [live EXCEPT !.fbo = @ \ {fbo}, !.tex = @ \ {tid}]
    /\ dev' = [dev EXCEPT !.fbo = IF @ = fbo THEN 0 ELSE @]
    /\ last' = DoneWith("ReleaseMap", <<fbo, tid>>, "nil", 0)
    /\ ret' = NoRet
    /\ UNCHANGED <<meshVars, renderVars, cullVars, ff>>

\* The descriptors drawn between creating and releasing resources.
ReleaseDraws == DrawsOf({TRUE}, {<<Triangles, 0>>},
                        {u \in UniformChoices : u.Uniforms = {"mvpm"}})

\* Resources created, used and released: a mesh with one channel, shaders,
\* textures and targets.
NextRelease ==
    \/ \E c \in Configs : steps < MaxOps /\ InitData(0, c[1], c[2], c[3])
    \/ \E data \in Payloads(SpanAt(0)) : steps < MaxOps /\ SetData(0, data)
    \/ \E fault \in {"none", "vb", "fb"} : steps < MaxOps /\ Bind(fault)
    \/ ReleaseMesh
    \/ \E compiles \in BOOLEAN : BindShader(compiles)
    \/ \E sid \in live.program : ReleaseShader(sid)
    \/ \E format \in ImageFormats : BindTexture(0, format, FALSE)
    \/ \E tid \in live.tex : ReleaseTexture(tid)
    \/ \E complete \in BOOLEAN : BindTarget(complete, FALSE)
    \/ \E fbo \in live.fbo, tid \in live.tex, db \in live.rbo : ReleaseTarget(fbo, tid, db)
    \/ \E complete \in BOOLEAN : BindMap(complete, FALSE)
    \/ \E fbo \in live.fbo, tid \in live.tex : ReleaseMap(fbo, tid)
    \/ \E d \in ReleaseDraws : Render(d)

SpecRelease == Init /\ [][NextRelease]_vars

\* Draw submission alone, on a fresh context.
NextDraws == \E d \in Draws : Render(d)

SpecDraws == Init /\ [][NextDraws]_vars

\* The uniform data a descriptor may carry for the generic uniform "kd": none, or a
\* slice of one of these lengths.
DataLens == {0, 1, 2, 3, 4, 5, 16}

\* Descriptors of a shader that expects bone poses, the sampler "uv1", the generic
\* uniform "kd" and the matrix "mvpm": with and without poses, with the textures of
\* binding order 0, of 0 and 1, or none, with every choice of data for "kd", and
\* always with the 16 values of "mvpm".
UniformDraws ==
    { [Scissor |-> FALSE, Depth |-> TRUE, Fbo |-> 0, Shader |-> 1, Mode |-> Triangles,
       Instances |-> 0, Uniforms |-> {"bpos", "uv1", "kd", "mvpm"}, UniformData |-> ud,
       Texs |-> tx, Poses |-> ps, Vao |-> 1] :
      ud \in {[k \in {"mvpm"} |-> 16]} \cup
             {[k \in {"kd", "mvpm"} |-> IF k = "kd" THEN n ELSE 16] : n \in DataLens},
      tx \in {{}, {0}, {0, 1}}, ps \in {0, 2} }

\* Draw submission with every kind of uniform, on a fresh context.
NextUniforms == \E d \in UniformDraws : Render(d)

SpecUniforms == Init /\ [][NextUniforms]_vars

\* The binder's operations in any order on one context.
NextRender ==
    \/ \E d \in BinderDraws : Render(d)
    \/ \E sz \in ViewSizes : Viewport(sz[1], sz[2])
    \/ \E attribute \in Attributes, enabled \in BOOLEAN : Enable(attribute, enabled)
    \/ \E complete \in BOOLEAN, fault \in BOOLEAN : BindTarget(complete, fault)
    \/ \E complete \in BOOLEAN, fault \in BOOLEAN : BindMap(complete, fault)
    \/ \E fault \in {"none", "vb", "fb"} : steps < MaxOps /\ Bind(fault)
    \/ steps < MaxOps /\ DeviceError

SpecRender == Init /\ [][NextRender]_vars

(***************************************************************************)
(* The cullers (culler.go).  Lengths are whole numbers; the radii are      *)
(* multiples of FudgeDen, so that the fudged radius is a whole number too. *)
(***************************************************************************)
FudgeNum == 4       \* fudgeFactor 0.8 = FudgeNum / FudgeDen
FudgeDen == 5

\* The radii a culler is built with.
Radii == {-5, 0, 5, 10}

\* Camera orientations: looking down -Z (identity), turned half a turn and a
\* quarter turn about Y.
Rots == {"identity", "half", "quarter"}

\* lin.MultSQ: the vector v rotated by the orientation.
MultSQ(v, rot) ==
    IF rot = "identity" THEN v
    ELSE IF rot = "half" THEN <<-v[1], v[2], -v[3]>>
    ELSE <<v[3], v[2], -v[1]>>

\* Camera.Distance: the squared distance from the camera's position to w.
Distance(cam, w) ==
    (w[1] - cam.pos[1]) * (w[1] - cam.pos[1])
    + (w[2] - cam.pos[2]) * (w[2] - cam.pos[2])
    + (w[3] - cam.pos[3]) * (w[3] - cam.pos[3])

Cameras == {[pos |-> p, rot |-> q] : p \in {<<0, 0, 0>>, <<0, 0, 1>>}, q \in Rots}

\* World positions of the candidates.
Candidates == {<<x, y, z>> : x \in {-3, 0, 3, 4}, y \in {0, 3, 4},
                             z \in {-10, -9, -8, -4, -1, 0, 1, 2, 4, 9}}

FrontCullUnclamped(r) == [kind |-> "front", radius |-> r, rr |-> r * r]

\* NewFrontCull.
FrontCullOf(r) ==
    LET c == IF r < 0 THEN 0 ELSE r
    IN  [kind |-> "front", radius |-> c, rr |-> c * c]

\* NewRadiusCull.
RadiusCullOf(r) ==
    LET c == IF r < 0 THEN 0 ELSE r
    IN  [kind |-> "radius", rr |-> c * c]

frontCulledNoFudge(fc, cam, w) ==
    LET c == MultSQ(<<0, 0, -fc.radius>>, cam.rot)
    IN  Distance(cam, <<w[1] - c[1], w[2] - c[2], w[3] - c[3]>>) > fc.rr

\* frontCull.Culled: the location is moved back by the fudged radius along the
\* camera's orientation and its squared distance to the camera compared with rr.
frontCulled(fc, cam, w) ==
    LET c == MultSQ(<<0, 0, -((fc.radius * FudgeNum) \div FudgeDen)>>, cam.rot)
        toc == Distance(cam, <<w[1] - c[1], w[2] - c[2], w[3] - c[3]>>)
    IN  toc > fc.rr

radiusCulledAtBoundary(rc, cam, w) == Distance(cam, w) >= rc.rr

\* radiusCull.Culled.
radiusCulled(rc, cam, w) == Distance(cam, w) > rc.rr

NewFrontCull(r) ==
    /\ culler' = FrontCullOf(r)
    /\ given' = r
    /\ last' = Done("NewFrontCull", "nil", 0)
    /\ ret' = NoRet
    /\ UNCHANGED <<meshVars, dev, live, renderVars, steps, ff>>

NewRadiusCull(r) ==
    /\ culler' = RadiusCullOf(r)
    /\ given' = r
    /\ last' = Done("NewRadiusCull", "nil", 0)
    /\ ret' = NoRet
    /\ UNCHANGED <<meshVars, dev, live, renderVars, steps, ff>>

\* Culled on the camera's culler.
Culled(cam, w) ==
    /\ culler.kind # "none"
    /\ ret' = [kind |-> "bool",
               val |-> IF culler.kind = "front" THEN frontCulled(culler, cam, w)
                       ELSE radiusCulled(culler, cam, w)]
    /\ last' = DoneWith("Culled", <<cam, w>>, "nil", 0)
    /\ UNCHANGED <<meshVars, dev, live, renderVars, steps, cullVars, ff>>

NextCull ==
    \/ \E r \in Radii : NewFrontCull(r)
    \/ \E r \in Radii : NewRadiusCull(r)
    \/ \E cam \in Cameras, w \in Candidates : Culled(cam, w)

SpecCull == Init /\ [][NextCull]_vars

(***************************************************************************)
(* The flow-field example (ff).  Screen positions are held in tenths of a  *)
(* grid cell, the distance a chaser moves in one Update.                   *)
(***************************************************************************)
MapSize == 4        \* ff.msize: the map's width and height
NumChasers == 2     \* numChasers
Tenths == 10        \* screen units per cell: speed is 0.1 cell per Update
NoValidMove == 9    \* flow.Next's x for a location without a valid move

\* ff.id and ff.at.
id(x, y) == x * MapSize + y
at(i) == <<i \div MapSize, i % MapSize>>

\* The open cells of the plan: a corridor in row 0 with a wall at x = 2, so that
\* (3, 0) is cut off from (0, 0) and (1, 0).
OpenCells == {<<0, 0>>, <<1, 0>>, <<3, 0>>}

\* ff.spots: the ids of the open cells.
spots == {id(c[1], c[2]) : c \in OpenCells}

Abs(n) == IF n < 0 THEN -n ELSE n
Sgn(n) == IF n < 0 THEN -1 ELSE IF n > 0 THEN 1 ELSE 0

\* The cell <<x, y>> is open and joined to the goal by open cells of its row.
Linked(goal, x, y) ==
    /\ <<x, y>> \in OpenCells
    /\ y = goal[2]
    /\ \A i \in 0 .. MapSize :
           ((x <= i /\ i <= goal[1]) \/ (goal[1] <= i /\ i <= x)) => <<i, y>> \in OpenCells

\* flow.Next(x, y) of the flow field created for the goal: the step towards the
\* goal, <<0, 0>> at the goal, NoValidMove where there is no way to it.
FlowNext(goal, x, y) ==
    IF ~Linked(goal, x, y) THEN <<NoValidMove, NoValidMove>>
    ELSE <<Sgn(goal[1] - x), Sgn(goal[2] - y)>>

\* newChaser: sx, sy are the chaser's pov location.
newChaser == [gx |-> 0, gy |-> 0, nx |-> 0, ny |-> 0, cx |-> 0, cy |-> 0,
              sx |-> 0, sy |-> 0]

NoMoveAtGoalOnly(nx, ny) == nx = 0 /\ ny = 0

\* move returns false: no valid move for the chaser, or the goal is reached.
NoMove(nx, ny) == nx = NoValidMove \/ (nx = 0 /\ ny = 0)

\* The center to go around on a diagonal step: a neighbour without a valid move.
Corner(goal, gx, gy, nx, ny) ==
    IF Abs(nx) = 1 /\ Abs(ny) = 1
    THEN IF FlowNext(goal, gx, gy + ny)[1] = NoValidMove THEN <<gx, gy + ny>>
         ELSE IF FlowNext(goal, gx + nx, gy)[1] = NoValidMove THEN <<gx + nx, gy>>
         ELSE <<0, 0>>
    ELSE <<0, 0>>

ISqrt(n) == CHOOSE r \in 0 .. n : r * r <= n /\ (r + 1) * (r + 1) > n

\* The point pushed out to the circle of radius 1 around the center, rounded to
\* tenths (the code computes it in float64).
Pushed(sx, sy, cx, cy) ==
    LET dx == sx - Tenths * cx
        dy == sy - Tenths * cy
        vlen == ISqrt(dx * dx + dy * dy)
    IN  IF vlen # 0
        THEN <<Tenths * cx + (Tenths * dx) \div vlen, Tenths * cy + (Tenths * dy) \div vlen>>
        ELSE <<Tenths * cx + dx, Tenths * cy + dy>>

\* chaser.move: the chaser after the call and the result moved.  A chaser is at
\* its next location when it is closer than half a tenth to it on each axis.
move(c, goal) ==
    LET atx == 2 * Abs(c.sx - Tenths * c.nx) < 1
        aty == 2 * Abs(c.sy - Tenths * c.ny) < 1
    IN  IF atx /\ aty
        THEN LET c1 == [c EXCEPT !.gx = c.nx, !.gy = c.ny]
                 n == FlowNext(goal, c1.gx, c1.gy)
                 k == Corner(goal, c1.gx, c1.gy, n[1], n[2])
             IN  IF NoMove(n[1], n[2])
                 THEN [c |-> c1, moved |-> FALSE]
                 ELSE [c |-> [c1 EXCEPT !.nx = c1.gx + n[1], !.ny = c1.gy + n[2],
                                        !.sx = Tenths * c1.gx, !.sy = Tenths * c1.gy,
                                        !.cx = k[1], !.cy = k[2]],
                       moved |-> TRUE]
        ELSE LET sx == IF ~atx THEN c.sx + (c.nx - c.gx) ELSE c.sx
                 sy == IF ~aty THEN c.sy + (c.ny - c.gy) ELSE c.sy
                 p == IF c.cx = 0 /\ c.cy = 0 THEN <<sx, sy>> ELSE Pushed(sx, sy, c.cx, c.cy)
             IN  [c |-> [c EXCEPT !.sx = p[1], !.sy = p[2]], moved |-> TRUE]

\* ff.resetLocations: places[i] and goalSpot are the spots rand.Intn picks.
resetLocations(f, places, goalSpot) ==
    [f EXCEPT !.chasers = [i \in DOMAIN f.chasers |->
                              LET g == at(places[i])
                              IN  [f.chasers[i] EXCEPT !.gx = g[1], !.gy = g[2],
                                                       !.nx = g[1], !.ny = g[2],
                                                       !.sx = Tenths * g[1],
                                                       !.sy = Tenths * g[2]]],
              !.goal = at(goalSpot),
              !.flow = at(goalSpot)]

Placements == [1 .. NumChasers -> spots]

otherVars == <<meshVars, dev, live, renderVars, steps, cullVars>>

\* fftag.Create: the chasers and the goal are made and placed.
Create(places, goalSpot) ==
    /\ ~ff.created
    /\ ff' = resetLocations([NoTag EXCEPT !.created = TRUE,
                                          !.chasers = [i \in 1 .. NumChasers |-> newChaser]],
                            places, goalSpot)
    /\ last' = Done("Create", "nil", 0)
    /\ ret' = NoRet
    /\ UNCHANGED otherVars

\* fftag.Update: space is whether the space key is down.  ret observes whether the
\* locations were reset and how many chasers had no valid move.
Update(space, places, goalSpot) ==
    LET m == [i \in DOMAIN ff.chasers |-> move(ff.chasers[i], ff.flow)]
        reset == \A i \in DOMAIN m : ~m[i].moved
        moved == [ff EXCEPT !.chasers = [i \in DOMAIN m |-> m[i].c]]
        stuck == Cardinality({i \in DOMAIN m :
                     FlowNext(ff.flow, m[i].c.gx, m[i].c.gy)[1] = NoValidMove})
    IN  /\ ff.created
        /\ IF space
           THEN /\ ff' = ff
                /\ ret' = [kind |-> "update", reset |-> FALSE, stuck |-> 0]
           ELSE /\ ff' = IF reset THEN resetLocations(moved, places, goalSpot) ELSE moved
                /\ ret' = [kind |-> "update", reset |-> reset,
                           stuck |-> IF reset THEN stuck ELSE 0]
        /\ last' = DoneWith("Update", <<space>>, "nil", 0)
        /\ UNCHANGED otherVars

NextFlow ==
    \/ \E places \in Placements, goalSpot \in spots : Create(places, goalSpot)
    \/ \E space \in BOOLEAN, places \in Placements, goalSpot \in spots :
           Update(space, places, goalSpot)

SpecFlow == Init /\ [][NextFlow]_vars

Next == NextMesh \/ NextRender \/ NextDraws \/ NextUniforms \/ NextCull \/ NextBinds
        \/ NextRelease \/ NextFlow

Spec == Init /\ [][Next]_vars

(***************************************************************************)
(* Properties of the mesh store and BindMesh, under SpecMesh.              *)
(***************************************************************************)
ChannelsOf(m) == {m.vdata[s] : s \in DOMAIN m.vdata}

\* C1: after a SetData or SetFaces on an initialized channel the mesh's rebind flag
\* is set; after a bind that returns nil it is cleared; and a bind that follows a
\* bind that returned nil, with no SetData or SetFaces taking effect in between,
\* issues no gl.BufferData or gl.BufferSubData call.
C1_DirtyFlagAndNoReupload ==
    /\ (last.op = "SetData" /\ last.arg[1] \in DOMAIN mesh.vdata) => mesh.rebind
    /\ (last.op = "SetFaces" /\ ~mesh.faces.nil) => mesh.rebind
    /\ (last.op = "bind" /\ last.err = "nil") => ~mesh.rebind
    /\ (last.op = "bind" /\ last.wasClean) => last.uploads = 0

\* A second bind of a mesh whose data was uploaded by an earlier bind: no upload.
C1_Witness ==
    /\ last.op = "bind" /\ last.wasClean /\ last.err = "nil" /\ last.uploads = 0
    /\ \E vd \in ChannelsOf(mesh) : vd.sent /\ vd.data.n > 0

\* C2: whenever the mesh's rebind flag is false, every channel's latest non-empty
\* payload set by SetData or SetFaces has been uploaded to the device.
C2_RebindFalseMeansUploaded ==
    ~mesh.rebind =>
        /\ \A vd \in ChannelsOf(mesh) : vd.data.n > 0 => vd.sent
        /\ (~mesh.faces.nil /\ mesh.faces.n > 0) => mesh.faces.sent

\* C8: SetData on a slot without a channel changes nothing of the mesh, and on an
\* initialized slot it replaces that channel's payload, leaves the other channels
\* as they were and sets the mesh's rebind flag; SetFaces likewise.
C8_SetDataFrame ==
    [][ /\ last'.op = "SetData" =>
            LET lloc == last'.arg[1]
                data == last'.arg[2]
            IN  IF lloc \in DOMAIN mesh.vdata
                THEN /\ mesh'.rebind
                     /\ DOMAIN mesh'.vdata = DOMAIN mesh.vdata
                     /\ mesh'.vdata[lloc].data = data
                     /\ \A s \in DOMAIN mesh.vdata \ {lloc} : mesh'.vdata[s] = mesh.vdata[s]
                     /\ mesh'.faces = mesh.faces
                ELSE mesh' = mesh
        /\ last'.op = "SetFaces" =>
            IF mesh.faces.nil
            THEN mesh' = mesh
            ELSE /\ mesh'.rebind
                 /\ mesh'.faces.n = last'.arg[1]
                 /\ mesh'.vdata = mesh.vdata ]_vars

\* SetData on a slot that has no channel, on a mesh that has another channel and
\* is not marked for rebind.
C8_Witness ==
    /\ last.op = "SetData"
    /\ last.arg[1] \notin DOMAIN mesh.vdata
    /\ last.arg[2].n > 0
    /\ DOMAIN mesh.vdata # {}
    /\ ~mesh.rebind

\* C9: counts returns the face buffer's length (0 without a face buffer) and the
\* vertex count of the first initialized channel (0 without any), whatever slots
\* are initialized.
C9_CountsFirstChannel ==
    last.op = "counts" =>
        ret.val = [faces |-> IF mesh.faces.nil THEN 0 ELSE mesh.faces.n,
                   verts |-> IF DOMAIN mesh.vdata = {} THEN 0
                             ELSE VertexLen(mesh.vdata[Min(DOMAIN mesh.vdata)]),
                   panic |-> FALSE]

\* C10: a bind of a mesh with a channel of more than MaxVerts vertices is rejected,
\* and no channel of more than MaxVerts vertices is ever uploaded to the device.
C10_VertexLimitEnforced ==
    /\ (last.op = "bind" /\ \E vd \in ChannelsOf(mesh) : VertexLen(vd) > MaxVerts)
          => last.err # "nil"
    /\ \A vd \in ChannelsOf(mesh) : vd.sent => VertexLen(vd) <= MaxVerts

(***************************************************************************)
(* Properties of the binder's cache, under SpecRender.                     *)
(***************************************************************************)
\* C3: after any sequence of binder operations the cached depthTest, shader and fbo
\* equal the device's depth-test state, active program and bound framebuffer.
C3_CacheEqualsDevice ==
    /\ gc.depthTest = dev.depth
    /\ gc.shader = dev.program
    /\ gc.fbo = dev.fbo

\* C4: the draw call of Render(d) executes with framebuffer d.Fbo bound, program
\* d.Shader active and the depth test equal to d.Depth.
C4_DrawSeesDescriptorState ==
    drawn.any =>
        /\ drawn.fbo = drawn.want.Fbo
        /\ drawn.program = drawn.want.Shader
        /\ drawn.depth = drawn.want.Depth

(***************************************************************************)
(* Properties of a run of draws on a fresh context, under SpecDraws.       *)
(***************************************************************************)
\* C5 as stated: two Render calls on a fresh context issue exactly one
\* gl.UseProgram when they carry the same shader handle and exactly two when they
\* carry different ones, whatever the handle values.
C5_AsStated ==
    hist.n = 2 => calls.useProgram = IF hist.sameShader THEN 1 ELSE 2

\* C5 as amended: the same, for a first shader handle other than 0, the value the
\* fresh context caches.
C5_ShaderBindElision ==
    (hist.n = 2 /\ hist.shader # 0) =>
        calls.useProgram = IF hist.sameShader THEN 1 ELSE 2

\* Two draws with the same non-zero shader: one gl.UseProgram.
C5_Witness ==
    hist.n = 2 /\ hist.shader # 0 /\ hist.sameShader /\ calls.useProgram = 1

\* C6 as stated: N descriptors sharing one shader and one framebuffer produce
\* exactly one shader bind, one framebuffer bind and N draw-element calls.
C6_AsStated ==
    (hist.n >= 1 /\ hist.sameShader /\ hist.sameFbo) =>
        /\ calls.useProgram = 1
        /\ calls.bindFramebuffer = 1
        /\ calls.drawElements = hist.n

\* C6 as amended: N descriptors sharing one shader and one framebuffer produce one
\* shader bind if the shader handle is not 0 and none if it is, one framebuffer
\* bind if the target is off-screen and none if it is the default 0, and N draw
\* calls: a draw-element call for each Triangles or Lines descriptor and a
\* gl.DrawArrays for each Points descriptor.
C6_SharedStateBoundOnce ==
    (hist.n >= 1 /\ hist.sameShader /\ hist.sameFbo) =>
        /\ calls.useProgram = IF hist.shader = 0 THEN 0 ELSE 1
        /\ calls.bindFramebuffer = IF hist.fbo = 0 THEN 0 ELSE 1
        /\ calls.drawArrays = hist.points
        /\ calls.drawElements = hist.n - hist.points

\* MaxRenders descriptors on one off-screen target with one shader, a Points one
\* among them.
C6_Witness ==
    /\ hist.n = MaxRenders /\ hist.sameShader /\ hist.sameFbo
    /\ hist.shader # 0 /\ hist.fbo # 0 /\ hist.points = 1
    /\ calls.useProgram = 1 /\ calls.bindFramebuffer = 1

\* C7: at the return of every Render the scissor test is disabled and no vertex
\* array is bound, and a draw whose descriptor sets no scissor executes with the
\* scissor test disabled, whatever the draw before it did.
C7_NoScissorLeak ==
    /\ last.op = "Render" => (~dev.scissor /\ dev.vao = 0)
    /\ (drawn.any /\ ~drawn.want.Scissor) => ~drawn.scissor

\* A Points draw without scissor right after a draw with scissor.
C7_Witness ==
    /\ last.op = "Render" /\ drawn.any
    /\ drawn.prevScissor /\ ~drawn.want.Scissor /\ ~drawn.scissor
    /\ drawn.call = "DrawArrays" /\ drawn.vao # 0

(***************************************************************************)
(* Properties of uniform binding, under SpecUniforms.                      *)
(***************************************************************************)
DrawCalls == {"DrawElements", "DrawElementsInstanced", "DrawArrays"}

\* The keys of the last descriptor that are generic uniforms.
GenericKeys == {key \in DOMAIN drawn.uniforms : key \notin {"bpos", "sm"} /\ ~IsUv(key)}

\* C11: for every generic uniform the descriptor has data for, a payload of 1, 2, 3
\* or 4 elements binds a 1-, 2-, 3- or 4-component float uniform, one of 16 elements
\* a 4x4 matrix, and a payload of any other length issues no device call for that
\* name and is logged; the other uniforms are still bound and the draw is issued.
C11_DispatchByLength ==
    (last.op = "Render" /\ drawn.any) =>
        /\ \A key \in GenericKeys \cap DOMAIN drawn.want.UniformData :
               LET n == drawn.want.UniformData[key]
               IN  drawn.uniforms[key] =
                       CASE n = 1 -> "Uniform1f"
                         [] n = 2 -> "Uniform2f"
                         [] n = 3 -> "Uniform3f"
                         [] n = 4 -> "Uniform4f"
                         [] n = 16 -> "UniformMatrix4fv"
                         [] OTHER -> "log"
        /\ drawn.call \in DrawCalls

\* A draw whose "kd" has 5 elements: logged, no call for it, the matrix still bound.
C11_Witness ==
    /\ last.op = "Render" /\ drawn.any
    /\ "kd" \in DOMAIN drawn.want.UniformData /\ drawn.want.UniformData["kd"] = 5
    /\ drawn.uniforms["kd"] = "log"
    /\ drawn.uniforms["mvpm"] = "UniformMatrix4fv"
    /\ drawn.call = "DrawElements"

(***************************************************************************)
(* Properties of the cullers, under SpecCull.                              *)
(***************************************************************************)
\* The squared distance between two points.
Dist2(a, b) ==
    (a[1] - b[1]) * (a[1] - b[1]) + (a[2] - b[2]) * (a[2] - b[2])
    + (a[3] - b[3]) * (a[3] - b[3])

AskedCam == last.arg[1]
AskedAt == last.arg[2]
Origin == <<0, 0, 0>>

Projected == <<0, 0, -((given * FudgeNum) \div FudgeDen)>>

Behind(cam, w) ==
    LET f == MultSQ(<<0, 0, -1>>, cam.rot)
    IN  (w[1] - cam.pos[1]) * f[1] + (w[2] - cam.pos[2]) * f[2]
        + (w[3] - cam.pos[3]) * f[3] < 0

\* C15: a front culler of radius R > 0 culls every candidate behind the camera, and
\* every candidate farther from the camera than the far end of the kept region
\* (1.8 R).
C15_BehindIsCulled ==
    (last.op = "Culled" /\ culler.kind = "front" /\ given > 0) =>
        /\ Behind(AskedCam, AskedAt) => ret.val
        /\ (FudgeDen * FudgeDen * Dist2(AskedAt, AskedCam.pos)
               > (FudgeNum + FudgeDen) * (FudgeNum + FudgeDen) * given * given) => ret.val

(***************************************************************************)
(* Properties of BindMesh per channel, under SpecMesh.                     *)
(***************************************************************************)
\* C16: after a BindMesh that returned nil no channel is marked for rebind and every
\* channel holding a payload has a device buffer and has had that payload
\* uploaded, whatever its usage and encoding; a channel that holds a payload and
\* is not marked for rebind has had it uploaded; and the one mesh has had at most
\* one vertex array generated for it.
C16_BindMeshUploadsDirty ==
    /\ (last.op = "bind" /\ last.err = "nil") =>
          /\ \A vd \in ChannelsOf(mesh) :
                 ~vd.rebind /\ (vd.data.n > 0 => (vd.ref # 0 /\ vd.sent))
          /\ ~mesh.faces.nil =>
                 ~mesh.faces.rebind
                 /\ (mesh.faces.n > 0 => (mesh.faces.ref # 0 /\ mesh.faces.sent))
    /\ \A vd \in ChannelsOf(mesh) : (~vd.rebind /\ vd.data.n > 0) => vd.sent
    /\ (~mesh.faces.nil /\ ~mesh.faces.rebind /\ mesh.faces.n > 0) => mesh.faces.sent
    /\ Cardinality(live.vao) <= 1
    /\ mesh.vao # 0 => live.vao = {mesh.vao}

(***************************************************************************)
(* Properties of the bind operations, under SpecBinds.                     *)
(***************************************************************************)
BindOps == {"bind", "BindShader", "BindTexture", "BindTarget", "BindMap"}

\* The rebind flags of the mesh's channels.
ChannelFlags(m) ==
    <<[s \in DOMAIN m.vdata |-> m.vdata[s].rebind],
      IF m.faces.nil THEN FALSE ELSE m.faces.rebind>>

\* C17: a bind operation entered while a device error is pending returns an error,
\* generates no device object, changes no channel's rebind flag and leaves the
\* bound framebuffer and vertex array as they were.
C17_FailFastOnPendingError ==
    [][ (dev.err /\ last'.op \in BindOps /\ steps' # steps) =>
            /\ last'.err # "nil"
            /\ live' = live
            /\ ChannelFlags(mesh') = ChannelFlags(mesh)
            /\ dev'.fbo = dev.fbo
            /\ dev'.vao = dev.vao ]_vars

\* C20: a BindShader that fails to compile or link returns the handle 0 and leaves
\* no program object allocated on the device.
C20_FailedShaderLeavesNothing ==
    [][ (last'.op = "BindShader" /\ last'.err # "nil" /\ steps' # steps) =>
            /\ ret'.program = 0
            /\ live'.program = live.program ]_vars

(***************************************************************************)
(* Uniforms without data, under SpecUniforms.                              *)
(***************************************************************************)
\* The keys of the last descriptor for which the descriptor supplies no data.
Unsupplied ==
    {key \in DOMAIN drawn.uniforms :
        \/ key = "bpos" /\ drawn.want.Poses = 0
        \/ IsUv(key) /\ UvIndex(key) \notin drawn.want.Texs
        \/ key \in GenericKeys /\ key \notin DOMAIN drawn.want.UniformData}

\* C18: for every key of d.Uniforms for which the descriptor supplies no data (a
\* generic uniform without UniformData, "bpos" without poses, "uvN" without a
\* texture of order N) Render logs a message and issues no uniform call, and the
\* draw is still issued.
C18_MissingDataIsReported ==
    (last.op = "Render" /\ drawn.any) =>
        /\ \A key \in Unsupplied : drawn.uniforms[key] = "log"
        /\ drawn.call \in DrawCalls

(***************************************************************************)
(* Framebuffer switching, under SpecRender.                                *)
(***************************************************************************)
\* C19: a Render whose descriptor's framebuffer differs from the cached one binds
\* it and sets the viewport: to the size last given to Viewport for the default
\* framebuffer, to LayerSize x LayerSize with a depth clear for an off-screen
\* target; a Render whose framebuffer equals the cached one issues no framebuffer
\* bind, no viewport call and no clear.
C19_ViewportFollowsFramebuffer ==
    (last.op = "Render" /\ drawn.any) =>
        IF drawn.cachedFbo # drawn.want.Fbo
        THEN /\ drawn.fbBound
             /\ dev.vp = drawn.viewport
             /\ IF drawn.want.Fbo = 0
                THEN drawn.viewport = hist.view
                ELSE drawn.viewport = <<LayerSize, LayerSize>> /\ drawn.cleared
        ELSE ~drawn.fbBound /\ drawn.viewport = <<>> /\ ~drawn.cleared

\* A Render back to the default framebuffer after one to an off-screen target
\* restores the size given to Viewport.
C19_Witness ==
    /\ last.op = "Render" /\ drawn.any
    /\ drawn.cachedFbo # 0 /\ drawn.want.Fbo = 0
    /\ hist.view = <<800, 600>> /\ drawn.viewport = <<800, 600>>

\* C21: a BindTexture given an image that is neither RGBA nor NRGBA returns a format
\* error, generates no device texture and leaves the caller's handle variable as
\* it was.
C21_BadFormatAllocatesNothing ==
    [][ (last'.op = "BindTexture" /\ last'.err = "format" /\ steps' # steps) =>
            /\ live'.tex = live.tex
            /\ ret'.tid = last'.arg[1] ]_vars

\* C22: a BindTarget or BindMap on which the device reports an incomplete
\* framebuffer returns an error, hands back the handles 0, leaves no device object
\* allocated and leaves the framebuffer bound that was bound before the call.
C22_IncompleteTargetLeavesNothing ==
    [][ (last'.op \in {"BindTarget", "BindMap"} /\ last'.err = "incomplete"
            /\ steps' # steps) =>
            /\ ret'.fbo = 0 /\ ret'.tid = 0
            /\ (last'.op = "BindTarget" => ret'.db = 0)
            /\ live' = live
            /\ dev'.fbo = dev.fbo ]_vars

(***************************************************************************)
(* Properties of the release operations, under SpecRelease.                *)
(***************************************************************************)
\* C23: after ReleaseMesh no vertex array and no buffer generated for the mesh is
\* left on the device.
C23_ReleaseMeshFreesAll ==
    last.op = "ReleaseMesh" => (live.vao = {} /\ live.buf = {})

\* C24: after ReleaseShader(h) the cached shader is not h, and after
\* ReleaseTarget(f, ..) or ReleaseMap(f, ..) the cached framebuffer is not f.
C24_CacheDropsReleased ==
    /\ last.op = "ReleaseShader" => gc.shader # last.arg[1]
    /\ last.op \in {"ReleaseTarget", "ReleaseMap"} => gc.fbo # last.arg[1]

(***************************************************************************)
(* Idempotence of InitData and InitFaces, under SpecMesh.                  *)
(***************************************************************************)
\* C25: an InitData for a slot that already has a channel changes nothing of the
\* mesh, whatever span, usage and normalize it is given, and an InitFaces on a mesh
\* that has a face channel likewise; every InitData and InitFaces returns the mesh
\* it was called on.
C25_InitDataIdempotent ==
    [][ /\ (last'.op = "InitData" /\ steps' # steps) =>
              /\ last'.arg[1] \in DOMAIN mesh.vdata => mesh' = mesh
              /\ ret'.val = mesh'
        /\ (last'.op = "InitFaces" /\ steps' # steps) =>
              /\ ~mesh.faces.nil => mesh' = mesh
              /\ ret'.val = mesh' ]_vars

\* A second InitData with another span and usage on a slot whose channel holds an
\* uploaded payload: the channel keeps its configuration, payload and buffer.
C25_Witness ==
    /\ last.op = "InitData"
    /\ last.arg[1] \in DOMAIN mesh.vdata
    /\ LET vd == mesh.vdata[last.arg[1]]
       IN  /\ vd.span # last.arg[2] /\ vd.usage # last.arg[3]
           /\ vd.data.n > 0 /\ vd.ref # 0 /\ vd.sent

(***************************************************************************)
(* Properties of the flow-field example, under SpecFlow.                   *)
(***************************************************************************)
\* The chaser's pov is at the goal.
AtGoal(f, c) == c.sx = Tenths * f.goal[1] /\ c.sy = Tenths * f.goal[2]

\* The chaser is at its next location and the flow field gives it no step from
\* there: it is at the goal, or there is no way from there to the goal.
Stopped(f, c) ==
    /\ 2 * Abs(c.sx - Tenths * c.nx) < 1 /\ 2 * Abs(c.sy - Tenths * c.ny) < 1
    /\ LET n == FlowNext(f.flow, c.nx, c.ny)
       IN  n = <<0, 0>> \/ n[1] = NoValidMove

Chasers(f) == {f.chasers[i] : i \in DOMAIN f.chasers}

====
